---- MODULE Spec2Model ----
(***************************************************************************)
(* EcoFinds cart and checkout routes (backend/routes/cart.py) over the     *)
(* products, cart_items, orders and order_items tables.                    *)
(*                                                                         *)
(* Every request runs in a worker with its own ORM session: rows a request *)
(* has read stay as it read them until the request ends; the tables change *)
(* only at db.session.commit().  Each database round trip of a handler is  *)
(* one step, so requests of different workers interleave between queries.  *)
(* The requests in progress are a bag: workers are interchangeable, and    *)
(* two of them may run the same request for the same user.                 *)
(***************************************************************************)
EXTENDS Integers, Sequences, FiniteSets, Bags, TLC

VARIABLES products, cart_items, next_cart_item_id, orders, order_items,
          requests, response

vars == <<products, cart_items, next_cart_item_id, orders, order_items,
          requests, response>>
db   == <<products, cart_items, next_cart_item_id, orders, order_items>>

----------------------------------------------------------------------------
(* Bounds of the model *)

\* cart_items.id is an autoincrement key: ids 1..MaxCartItemId are handed out
MaxCartItemId == 3

\* request-handling workers running handlers concurrently
Workers == {"w1", "w2"}

\* users that send requests; user 3 only sells
Users == {1, 2}

\* rows of the products table
ProductIds == {1, 2}

\* the products whose seller withdraws the listing while it is unsold
Withdrawn == {2}

----------------------------------------------------------------------------
(* models/product.py *)

\* Product.seller_id: set at creation, written by no route of cart.py
seller_id(p) == IF p = 1 THEN 3 ELSE 2

\* Product.price: set at creation, written by no route of cart.py
price(p) == IF p = 1 THEN 10 ELSE 15

\* Product.is_sold has default=False; exists tells whether the row is there
\* at all (item.product is None for a cart item whose product is gone)
NewProduct == [exists |-> TRUE, is_sold |-> FALSE]

----------------------------------------------------------------------------
(* Rows, requests and answers *)

CartItem(id, u, p) == [id |-> id, user_id |-> u, product_id |-> p]

\* a request as its handler starts: what the session has loaded and the
\* local variables of the handler
NewRequest(op, u, arg) ==
  [op |-> op, user_id |-> u, pc |-> "start", arg |-> arg,
   cart_items |-> <<>>, loaded |-> <<>>,
   order_id |-> 0, unavailable |-> <<>>, valid_items |-> <<>>, total |-> 0]

\* the answer to the request r: the status and message of the jsonify(...)
\* that the handler returns, with the body it carries
Answer(r, result) ==
  [op |-> r.op, user_id |-> r.user_id, arg |-> r.arg, result |-> result,
   order_id |-> r.order_id, total |-> r.total, valid_items |-> r.valid_items,
   unavailable |-> r.unavailable]

\* response when the latest step sent no answer
NoResponse == Answer(NewRequest("none", 0, 0), "none")

\* a worker is free to take a request
Free == BagCardinality(requests) < Cardinality(Workers)

\* the handler of a new request r goes on to its second query
Accept(r) ==
  /\ requests' = requests (+) SetToBag({r})
  /\ response' = NoResponse

\* the handler of a new request returns from its first query
Reject(answer) ==
  /\ requests' = requests
  /\ response' = answer

\* the handler of the request r returns
Return(r, answer) ==
  /\ requests' = requests (-) SetToBag({r})
  /\ response' = answer

\* the handler of the request r goes on to its next query, as r2
Continue(r, r2) ==
  /\ requests' = (requests (-) SetToBag({r})) (+) SetToBag({r2})
  /\ response' = NoResponse

RECURSIVE SortById(_)
\* the rows of a query as a sequence, in primary-key order
SortById(S) ==
  IF S = {} THEN <<>>
  ELSE LET c == CHOOSE x \in S : \A y \in S : x.id <= y.id
       IN  <<c>> \o SortById(S \ {c})

\* the total as the price of the first item alone
SumPriceOfFirst(items) ==
  IF items = <<>> THEN 0 ELSE price(Head(items).product_id)

RECURSIVE SumPrice(_)
\* sum(item.product.price for item in cart_items)
SumPrice(items) ==
  IF items = <<>> THEN 0
  ELSE price(Head(items).product_id) + SumPrice(Tail(items))

\* the query without its filter: the cart items of every user
CartOfAnyone(u) == SortById(cart_items)

\* CartItem.query.filter_by(user_id=u).all()
CartOf(u) == SortById({c \in cart_items : c.user_id = u})

\* the check without "or item.product.is_sold"
StaleWhenMissing(snap) == ~snap.exists

\* not item.product or item.product.is_sold, of a product as the session
\* loaded it
Stale(snap) == ~snap.exists \/ snap.is_sold

----------------------------------------------------------------------------
Init ==
  /\ products = [p \in ProductIds |-> NewProduct]
  /\ cart_items = {}
  /\ next_cart_item_id = 1
  /\ orders = <<>>
  /\ order_items = <<>>
  /\ requests = EmptyBag
  /\ response = NoResponse

----------------------------------------------------------------------------
(* add_to_cart *)

\* the checks of the product without the one on is_sold
ProductCheckedForExistence(snap) ==
  IF ~snap.exists THEN "ProductNotFound" ELSE "pass"

\* lines 85-89: if not product, if product.is_sold
ProductChecked(snap) ==
  IF ~snap.exists THEN "ProductNotFound"
  ELSE IF snap.is_sold THEN "ProductUnavailable"
  ELSE "pass"

\* lines 83-89: Product.query.get(product_id), not found, already sold
AddToCartProduct(u, p) ==
  /\ Free
  /\ LET snap == products[p]
         r == [NewRequest("add_to_cart", u, p) EXCEPT !.loaded = <<snap>>]
     IN IF ProductChecked(snap) # "pass" THEN Reject(Answer(r, ProductChecked(snap)))
        ELSE Accept([r EXCEPT !.pc = "existing"])
  /\ UNCHANGED db

\* the seller check with its comparison the wrong way round
CartCheckedNotSeller(existing_item, p, u) ==
  IF existing_item # {} THEN "AlreadyInCart"
  ELSE IF seller_id(p) # u THEN "SelfPurchaseForbidden"
  ELSE "pass"

\* the checks of the cart without the one on the seller
CartCheckedForExisting(existing_item, p, u) ==
  IF existing_item # {} THEN "AlreadyInCart" ELSE "pass"

\* lines 93-102: if existing_item, if product.seller_id == current_user_id
CartChecked(existing_item, p, u) ==
  IF existing_item # {} THEN "AlreadyInCart"
  ELSE IF seller_id(p) = u THEN "SelfPurchaseForbidden"
  ELSE "pass"

\* lines 91-102: the query for an existing cart item, then the seller check
AddToCartExisting(r) ==
  /\ r.op = "add_to_cart" /\ r.pc = "existing"
  /\ LET u == r.user_id
         p == r.arg
         existing_item == {c \in cart_items : c.user_id = u /\ c.product_id = p}
         checked == CartChecked(existing_item, p, u)
     IN IF checked # "pass" THEN
          Return(r, [Answer(r, checked) EXCEPT !.valid_items = SortById(existing_item)])
        ELSE Continue(r, [r EXCEPT !.pc = "insert"])
  /\ UNCHANGED db

\* a cart_items table that accepts any row
NeverExists(u, p) == FALSE

\* Cart Store insert(userId, productId) -> CartEntry | AlreadyExists: the
\* cart_items table refuses a second row for the same (user_id, product_id)
AlreadyExists(u, p) ==
  \E c \in cart_items : c.user_id = u /\ c.product_id = p

\* an insert that also reserves the product: it sets is_sold with the row
AddToCartInsertReserves(r) ==
  /\ r.op = "add_to_cart" /\ r.pc = "insert"
  /\ next_cart_item_id <= MaxCartItemId
  /\ LET u == r.user_id
         p == r.arg
         cart_item == CartItem(next_cart_item_id, u, p)
     IN IF AlreadyExists(u, p) THEN
          /\ Return(r, Answer(r, "Error"))
          /\ UNCHANGED db
        ELSE
          /\ cart_items' = cart_items \cup {cart_item}
          /\ next_cart_item_id' = next_cart_item_id + 1
          /\ products' = [products EXCEPT ![p].is_sold = products[p].exists]
          /\ Return(r, [Answer(r, "Created") EXCEPT !.valid_items = <<cart_item>>])
          /\ UNCHANGED <<orders, order_items>>

\* lines 104-120: INSERT and commit; a refused INSERT raises, the session is
\* rolled back and the request answers 500
AddToCartInsert(r) ==
  /\ r.op = "add_to_cart" /\ r.pc = "insert"
  /\ next_cart_item_id <= MaxCartItemId
  /\ LET u == r.user_id
         p == r.arg
         cart_item == CartItem(next_cart_item_id, u, p)
     IN IF AlreadyExists(u, p) THEN
          /\ Return(r, Answer(r, "Error"))
          /\ UNCHANGED db
        ELSE
          /\ cart_items' = cart_items \cup {cart_item}
          /\ next_cart_item_id' = next_cart_item_id + 1
          /\ Return(r, [Answer(r, "Created") EXCEPT !.valid_items = <<cart_item>>])
          /\ UNCHANGED <<products, orders, order_items>>

----------------------------------------------------------------------------
(* remove_from_cart *)

\* the lookup without the check of the owner (lines 132-133 left out)
RemoveFromCartGetOfAnyone(u, id) ==
  /\ Free
  /\ LET cart_item == {c \in cart_items : c.id = id}
         r == [NewRequest("remove_from_cart", u, id) EXCEPT
                 !.cart_items = SortById(cart_item)]
     IN IF cart_item = {} THEN Reject(Answer(r, "NotFound"))
        ELSE Accept([r EXCEPT !.pc = "delete"])
  /\ UNCHANGED db

\* lines 127-133: CartItem.query.get(id), not found, not the caller's
RemoveFromCartGet(u, id) ==
  /\ Free
  /\ LET cart_item == {c \in cart_items : c.id = id}
         r == [NewRequest("remove_from_cart", u, id) EXCEPT
                 !.cart_items = SortById(cart_item)]
     IN IF cart_item = {} THEN Reject(Answer(r, "NotFound"))
        ELSE IF \E c \in cart_item : c.user_id # u THEN Reject(Answer(r, "Forbidden"))
        ELSE Accept([r EXCEPT !.pc = "delete"])
  /\ UNCHANGED db

\* lines 135-140: DELETE by primary key and commit; a DELETE that matches no
\* row (the row is already gone) only warns, and the request answers 200
RemoveFromCartDelete(r) ==
  /\ r.op = "remove_from_cart" /\ r.pc = "delete"
  /\ cart_items' = {c \in cart_items : c.id # r.arg}
  /\ Return(r, Answer(r, "Ok"))
  /\ UNCHANGED <<products, next_cart_item_id, orders, order_items>>

----------------------------------------------------------------------------
(* get_cart *)

\* line 23: the cart items of the user; lines 48-52 at once when there are none
GetCartItems(u) ==
  /\ Free
  /\ LET items == CartOf(u)
         r == [NewRequest("get_cart", u, 0) EXCEPT !.cart_items = items]
     IN IF items = <<>> THEN Reject(Answer(r, "Ok"))
        ELSE Accept([r EXCEPT !.pc = "product"])
  /\ UNCHANGED db

\* the loop with total += item.product.price for every item whose product
\* is there, sold or not
GetCartProductTotalOfSold(r) ==
  /\ r.op = "get_cart" /\ r.pc = "product"
  /\ LET i == Len(r.loaded) + 1
         item == r.cart_items[i]
         snap == products[item.product_id]
         r2 == [r EXCEPT
                 !.loaded = Append(@, snap),
                 !.total = IF snap.exists THEN @ + price(item.product_id) ELSE @,
                 !.valid_items = IF Stale(snap) THEN @ ELSE Append(@, item),
                 !.unavailable =
                    IF Stale(snap) THEN
                      Append(@, [id |-> item.id, product_id |-> item.product_id,
                                 reason |-> IF snap.exists THEN "sold" ELSE "missing"])
                    ELSE @]
     IN IF i = Len(r.cart_items) THEN Return(r, Answer(r2, "Ok")) ELSE Continue(r, r2)
  /\ UNCHANGED db

\* lines 30-46: one turn of the loop, which loads item.product; lines 48-52
\* after the last one
GetCartProduct(r) ==
  /\ r.op = "get_cart" /\ r.pc = "product"
  /\ LET i == Len(r.loaded) + 1
         item == r.cart_items[i]
         snap == products[item.product_id]
         last == i = Len(r.cart_items)
         r2 == [r EXCEPT
                 !.loaded = Append(@, snap),
                 !.total = IF Stale(snap) THEN @ ELSE @ + price(item.product_id),
                 !.valid_items = IF Stale(snap) THEN @ ELSE Append(@, item),
                 !.unavailable =
                    IF ~snap.exists THEN
                      Append(@, [id |-> item.id, product_id |-> item.product_id,
                                 reason |-> "missing"])
                    ELSE IF snap.is_sold THEN
                      Append(@, [id |-> item.id, product_id |-> item.product_id,
                                 reason |-> "sold"])
                    ELSE @]
     IN IF last THEN Return(r, Answer(r2, "Ok")) ELSE Continue(r, r2)
  /\ UNCHANGED db

----------------------------------------------------------------------------
(* checkout *)

\* lines 163-170: the cart items of the user, empty cart
CheckoutItems(u) ==
  /\ Free
  /\ LET items == CartOf(u)
         r == [NewRequest("checkout", u, 0) EXCEPT !.cart_items = items]
     IN IF items = <<>> THEN Reject(Answer(r, "EmptyCart"))
        ELSE Accept([r EXCEPT !.pc = "validate"])
  /\ UNCHANGED db

\* a validation loop that stops collecting after the first unavailable product
CheckoutProductReportsFirst(r) ==
  /\ r.op = "checkout" /\ r.pc = "validate"
  /\ LET i == Len(r.loaded) + 1
         item == r.cart_items[i]
         snap == products[item.product_id]
         unavailable_products ==
           IF Stale(snap) /\ r.unavailable = <<>> THEN
             <<[id |-> IF snap.exists THEN item.product_id ELSE item.id,
                name |-> IF snap.exists THEN "title" ELSE "Unknown product"]>>
           ELSE r.unavailable
         r2 == [r EXCEPT !.loaded = Append(@, snap),
                         !.unavailable = unavailable_products]
     IN IF i # Len(r.cart_items) THEN Continue(r, r2)
        ELSE IF unavailable_products # <<>> THEN Return(r, Answer(r2, "ItemsUnavailable"))
        ELSE Continue(r, [r2 EXCEPT !.pc = "commit"])
  /\ UNCHANGED db

\* lines 172-186: one turn of the validation loop, which loads item.product;
\* after the last one the request answers 400 when any product is unavailable
CheckoutProduct(r) ==
  /\ r.op = "checkout" /\ r.pc = "validate"
  /\ LET i == Len(r.loaded) + 1
         item == r.cart_items[i]
         snap == products[item.product_id]
         last == i = Len(r.cart_items)
         unavailable_products ==
           IF Stale(snap) THEN
             Append(r.unavailable,
                    [id |-> IF snap.exists THEN item.product_id ELSE item.id,
                     name |-> IF snap.exists THEN "title" ELSE "Unknown product"])
           ELSE r.unavailable
         r2 == [r EXCEPT !.loaded = Append(@, snap),
                         !.unavailable = unavailable_products]
     IN IF ~last THEN Continue(r, r2)
        ELSE IF unavailable_products # <<>> THEN Return(r, Answer(r2, "ItemsUnavailable"))
        ELSE Continue(r, [r2 EXCEPT !.pc = "commit"])
  /\ UNCHANGED db

\* the products of the cart items a request has loaded
ItemProducts(items) == {items[i].product_id : i \in DOMAIN items}

\* lines 200-207: one OrderItem per cart item, at the product's price
NewOrderItems(order_id, items) ==
  [i \in DOMAIN items |->
     [order_id |-> order_id, product_id |-> items[i].product_id,
      price |-> price(items[i].product_id)]]

\* an UPDATE without its WHERE: every product of the catalog is marked sold
MarkEverySold(prods, ps) ==
  [p \in ProductIds |-> IF prods[p].exists THEN [prods[p] EXCEPT !.is_sold = TRUE]
                        ELSE prods[p]]

\* lines 209-210 at the flush: UPDATE products SET is_sold = true WHERE id = p,
\* whatever is_sold is by now
MarkSold(prods, ps) ==
  [p \in ProductIds |-> IF p \in ps THEN [prods[p] EXCEPT !.is_sold = TRUE]
                        ELSE prods[p]]

\* lines 212-213 at the flush: DELETE of the loaded cart items by primary key
DeleteItems(cart, items) ==
  {c \in cart : \A i \in DOMAIN items : items[i].id # c.id}

\* a commit that, when the UPDATE of a product matches no row, starts the
\* checkout over from its validation instead of answering
CheckoutCommitRetries(r) ==
  /\ r.op = "checkout" /\ r.pc = "commit"
  /\ LET items == r.cart_items
         order_id == Len(orders) + 1
         total_amount == SumPrice(items)
     IN IF \E p \in ItemProducts(items) : ~products[p].exists THEN
          /\ Continue(r, [r EXCEPT !.pc = "validate", !.loaded = <<>>,
                                   !.unavailable = <<>>])
          /\ UNCHANGED db
        ELSE
          /\ orders' = Append(orders, [user_id |-> r.user_id,
                                       total_amount |-> total_amount])
          /\ order_items' = order_items \o NewOrderItems(order_id, items)
          /\ products' = MarkSold(products, ItemProducts(items))
          /\ cart_items' = DeleteItems(cart_items, items)
          /\ Return(r, [Answer(r, "OrderCreated") EXCEPT
                          !.order_id = order_id, !.total = total_amount])
          /\ UNCHANGED next_cart_item_id

\* lines 188-220: the order, its items, the sold flags and the cart deletions
\* in one transaction.  The UPDATE of a product whose row is gone matches no
\* row and raises: lines 222-228 roll back and answer 500
CheckoutCommit(r) ==
  /\ r.op = "checkout" /\ r.pc = "commit"
  /\ LET items == r.cart_items
         order_id == Len(orders) + 1
         total_amount == SumPrice(items)
     IN IF \E p \in ItemProducts(items) : ~products[p].exists THEN
          /\ Return(r, Answer(r, "CheckoutFailed"))
          /\ UNCHANGED db
        ELSE
          /\ orders' = Append(orders, [user_id |-> r.user_id,
                                       total_amount |-> total_amount])
          /\ order_items' = order_items \o NewOrderItems(order_id, items)
          /\ products' = MarkSold(products, ItemProducts(items))
          /\ cart_items' = DeleteItems(cart_items, items)
          /\ Return(r, [Answer(r, "OrderCreated") EXCEPT
                          !.order_id = order_id, !.total = total_amount])
          /\ UNCHANGED next_cart_item_id

\* a failed commit that compensates by hand: it sets is_sold = False on
\* every product of its cart, whoever sold it
CheckoutCommitFailsAndUnmarks(r) ==
  /\ r.op = "checkout" /\ r.pc = "commit"
  /\ products' = [p \in ProductIds |->
                    IF p \in ItemProducts(r.cart_items)
                    THEN [products[p] EXCEPT !.is_sold = FALSE] ELSE products[p]]
  /\ Return(r, Answer(r, "CheckoutFailed"))
  /\ UNCHANGED <<cart_items, next_cart_item_id, orders, order_items>>

\* a failed commit whose sold flags stay behind: no rollback of the products
CheckoutCommitFailsHalfway(r) ==
  /\ r.op = "checkout" /\ r.pc = "commit"
  /\ products' = MarkSold(products, ItemProducts(r.cart_items))
  /\ Return(r, Answer(r, "CheckoutFailed"))
  /\ UNCHANGED <<cart_items, next_cart_item_id, orders, order_items>>

\* lines 222-228: the commit raises (the durable write fails); the session is
\* rolled back, nothing of the transaction is stored, the request answers 500
CheckoutCommitFails(r) ==
  /\ r.op = "checkout" /\ r.pc = "commit"
  /\ Return(r, Answer(r, "CheckoutFailed"))
  /\ UNCHANGED db

----------------------------------------------------------------------------
(* The catalog outside cart.py *)

\* a seller withdraws an unsold product; cart items that reference it stay
DeleteProduct(p) ==
  /\ p \in Withdrawn
  /\ products[p].exists /\ ~products[p].is_sold
  /\ products' = [products EXCEPT ![p] = [exists |-> FALSE, is_sold |-> FALSE]]
  /\ response' = NoResponse
  /\ UNCHANGED <<cart_items, next_cart_item_id, orders, order_items, requests>>

----------------------------------------------------------------------------
Next ==
  \/ \E u \in Users, p \in ProductIds : AddToCartProduct(u, p)
  \/ \E r \in BagToSet(requests) : AddToCartExisting(r)
  \/ \E r \in BagToSet(requests) : AddToCartInsert(r)
  \/ \E u \in Users, id \in 1..MaxCartItemId : RemoveFromCartGet(u, id)
  \/ \E r \in BagToSet(requests) : RemoveFromCartDelete(r)
  \/ \E u \in Users : GetCartItems(u)
  \/ \E r \in BagToSet(requests) : GetCartProduct(r)
  \/ \E u \in Users : CheckoutItems(u)
  \/ \E r \in BagToSet(requests) : CheckoutProduct(r)
  \/ \E r \in BagToSet(requests) : CheckoutCommit(r)
  \/ \E r \in BagToSet(requests) : CheckoutCommitFails(r)
  \/ \E p \in ProductIds : DeleteProduct(p)

Spec == Init /\ [][Next]_vars

\* a step of a checkout of user u that is in progress
CheckoutStep(u) ==
  \E r \in BagToSet(requests) :
    /\ r.user_id = u
    /\ CheckoutProduct(r) \/ CheckoutCommit(r) \/ CheckoutCommitFails(r)

\* every worker keeps running its handler: a checkout in progress is not
\* left waiting forever
FairSpec == Spec /\ \A u \in Users : WF_vars(CheckoutStep(u))

----------------------------------------------------------------------------
(* Steps of a request, as the properties below name them *)

\* the step takes the request r in progress one query further, or answers it
Stepped(r) ==
  BagIn(r, requests) /\ CopiesIn(r, requests') < CopiesIn(r, requests)

\* the step answers the request r in progress
Answered(r) ==
  BagIn(r, requests) /\ requests' = requests (-) SetToBag({r})

\* every request record that is or was in progress over the step
InProgress == BagToSet(requests)

\* the OrderItem rows that reference product p
OrderItemsOf(p) == {i \in DOMAIN order_items : order_items[i].product_id = p}

\* the cart_items rows of user u
CartRows(u) == {c \in cart_items : c.user_id = u}

\* the step answers the checkout r from its commit
CommitStep(r) == r.op = "checkout" /\ r.pc = "commit" /\ Answered(r)

\* product p has been sold to a user other than u
SoldToAnother(p, u) ==
  /\ products[p].is_sold
  /\ \E i \in OrderItemsOf(p) : orders[order_items[i].order_id].user_id # u

----------------------------------------------------------------------------
(* C1 *)

\* C1: in every reachable state every product of the catalog is sold if and
\* only if exactly one OrderItem references it
C1_SoldIffOneOrderItem ==
  \A p \in ProductIds :
    products[p].exists =>
      (products[p].is_sold <=> Cardinality(OrderItemsOf(p)) = 1)

----------------------------------------------------------------------------
(* C2 *)

\* C2: of two checkouts of different users that both validated product p
\* unsold, the one that commits second (p is sold to the other user by then)
\* answers ItemsUnavailable, adds no OrderItem and leaves p sold
C2_LoserGetsItemsUnavailable ==
  [][\A r \in InProgress : \A p \in ItemProducts(r.cart_items) :
       (/\ CommitStep(r)
        /\ SoldToAnother(p, r.user_id)
        /\ response'.result # "CheckoutFailed")
       => (/\ response'.result = "ItemsUnavailable"
           /\ order_items' = order_items
           /\ products'[p].is_sold)]_vars

----------------------------------------------------------------------------
(* C3 *)

\* C3: a checkout of a cart of several items that passed validation and finds
\* one of its products sold to another user when it commits answers
\* ItemsUnavailable and leaves products, cart, orders and order items as
\* they were
C3_LoserLeavesNoEffect ==
  [][\A r \in InProgress :
       (/\ CommitStep(r)
        /\ Len(r.cart_items) > 1
        /\ \E p \in ItemProducts(r.cart_items) : SoldToAnother(p, r.user_id)
        /\ response'.result # "CheckoutFailed")
       => (/\ response'.result = "ItemsUnavailable"
           /\ UNCHANGED db)]_vars

----------------------------------------------------------------------------
(* C4 *)

\* the step is a turn of the validation loop of the checkout r
ValidateStep(r) == r.op = "checkout" /\ r.pc = "validate" /\ Stepped(r)

\* the product of the cart item that the validation loop of r reads next
NextProduct(r) == r.cart_items[Len(r.loaded) + 1].product_id

\* the validation of r has met, or meets now, a missing or sold product
MeetsStale(r) ==
  \/ \E i \in DOMAIN r.loaded : ~r.loaded[i].exists \/ r.loaded[i].is_sold
  \/ ~products[NextProduct(r)].exists
  \/ products[NextProduct(r)].is_sold

\* C4: a checkout that meets a missing or sold product of its cart during
\* validation changes nothing (products, cart items, orders, order items)
\* and, once it has looked at every item, answers ItemsUnavailable; it never
\* gets to the commit
C4_StaleCartRejected ==
  [][\A r \in InProgress :
       (ValidateStep(r) /\ MeetsStale(r))
       => (/\ UNCHANGED db
           /\ IF Len(r.loaded) + 1 = Len(r.cart_items)
              THEN /\ Answered(r)
                   /\ response'.op = "checkout"
                   /\ response'.user_id = r.user_id
                   /\ response'.result = "ItemsUnavailable"
              ELSE \E r2 \in BagToSet(requests') :
                     /\ requests' = (requests (-) SetToBag({r})) (+) SetToBag({r2})
                     /\ r2.pc = "validate"
                     /\ r2.unavailable # <<>>)]_vars

\* C4 witness: the staleness scenario: a checkout was answered
\* ItemsUnavailable, and the cart of its user still holds a sold product and
\* an available one, which is still unsold
C4_Witness ==
  /\ response.op = "checkout" /\ response.result = "ItemsUnavailable"
  /\ \E c \in CartRows(response.user_id) : products[c.product_id].is_sold
  /\ \E c \in CartRows(response.user_id) :
       products[c.product_id].exists /\ ~products[c.product_id].is_sold

----------------------------------------------------------------------------
(* C5 *)

RECURSIVE PriceOfRows(_)
\* the prices of the products of a set of cart rows, added up
PriceOfRows(rows) ==
  IF rows = {} THEN 0
  ELSE LET c == CHOOSE x \in rows : TRUE
       IN  price(c.product_id) + PriceOfRows(rows \ {c})

\* nothing has raced with the checkout r when it commits: the cart of its
\* user is as r loaded it, and every product of it is there and unsold
NoRace(r) ==
  /\ CartOf(r.user_id) = r.cart_items
  /\ \A c \in CartRows(r.user_id) :
       products[c.product_id].exists /\ ~products[c.product_id].is_sold

\* C5: a checkout that commits with no race and no write failure adds exactly
\* one Order, of its user, whose total is the sum of the prices of the cart's
\* products, adds exactly one OrderItem per cart entry at that product's
\* price, leaves no cart entry of the user and leaves every product of the
\* cart sold
C5_CheckoutRoundTrip ==
  [][\A r \in InProgress :
       (CommitStep(r) /\ NoRace(r) /\ response'.result # "CheckoutFailed")
       => LET u == r.user_id
              rows == CartRows(u)
              n == Len(orders')
              added == (Len(order_items) + 1)..Len(order_items')
          IN /\ response'.result = "OrderCreated"
             /\ response'.order_id = n
             /\ n = Len(orders) + 1
             /\ SubSeq(orders', 1, Len(orders)) = orders
             /\ orders'[n] = [user_id |-> u, total_amount |-> PriceOfRows(rows)]
             /\ SubSeq(order_items', 1, Len(order_items)) = order_items
             /\ Len(order_items') = Len(order_items) + Cardinality(rows)
             /\ \A c \in rows :
                  \E i \in added :
                    order_items'[i] = [order_id |-> n, product_id |-> c.product_id,
                                        price |-> price(c.product_id)]
             /\ \A c \in cart_items' : c.user_id # u
             /\ \A c \in rows :
                  products'[c.product_id].exists /\ products'[c.product_id].is_sold]_vars

\* C5 witness: the round trip of the cart of products 1 (price 10) and 2
\* (price 15): one order of total 25, two order items, an empty cart, both
\* products sold
C5_Witness ==
  /\ response.op = "checkout" /\ response.result = "OrderCreated"
  /\ Len(orders) = 1 /\ orders[1].total_amount = 25
  /\ Len(order_items) = 2
  /\ order_items[1].price = 10 /\ order_items[2].price = 15
  /\ CartRows(response.user_id) = {}
  /\ \A p \in ProductIds : products[p].is_sold

----------------------------------------------------------------------------
(* C6 *)

\* C6: a checkout whose commit does not go through answers CheckoutFailed
\* and leaves products, cart items, orders and order items as they were; and
\* no earlier step of the checkout has changed any of them
C6_FailedCommitRestores ==
  [][/\ \A r \in InProgress :
          (CommitStep(r) /\ response'.result # "OrderCreated")
          => (response'.result = "CheckoutFailed" /\ UNCHANGED db)
     /\ \A r \in InProgress :
          (r.op = "checkout" /\ r.pc # "commit" /\ Stepped(r)) => UNCHANGED db]_vars

\* C6 witness: a checkout was answered CheckoutFailed; every product of its
\* user's cart is there and unsold, the cart entries are there, and no
\* Order or OrderItem is stored
C6_Witness ==
  /\ response.op = "checkout" /\ response.result = "CheckoutFailed"
  /\ Cardinality(CartRows(response.user_id)) = 2
  /\ \A c \in CartRows(response.user_id) :
       products[c.product_id].exists /\ ~products[c.product_id].is_sold
  /\ orders = <<>> /\ order_items = <<>>

----------------------------------------------------------------------------
(* C7 *)

\* C7: a checkout of a user who has no cart entry answers EmptyCart at once
\* and writes nothing, so that the next one finds the same state
C7_EmptyCartNoWrites ==
  [][\A u \in Users :
       (CheckoutItems(u) /\ CartRows(u) = {})
       => (/\ response'.op = "checkout"
           /\ response'.user_id = u
           /\ response'.result = "EmptyCart"
           /\ requests' = requests
           /\ UNCHANGED db)]_vars

\* C7 witness: EmptyCart was answered to a user who has checked out before,
\* while another user still has a cart entry
C7_Witness ==
  /\ response.op = "checkout" /\ response.result = "EmptyCart"
  /\ \E i \in DOMAIN orders : orders[i].user_id = response.user_id
  /\ \E c \in cart_items : c.user_id # response.user_id

----------------------------------------------------------------------------
(* C8 *)

\* C8: in every reachable state no two cart entries share the same
\* (user_id, product_id)
C8_OneEntryPerUserAndProduct ==
  \A c1 \in cart_items : \A c2 \in cart_items :
    (c1.user_id = c2.user_id /\ c1.product_id = c2.product_id) => c1 = c2

\* C8 witness: two add_to_cart requests of one user for one product ran
\* together, both passed the check for an existing entry, one inserted its
\* row and the insert of the other was refused
C8_Witness ==
  /\ response.op = "add_to_cart" /\ response.result = "Error"
  /\ \E c \in cart_items :
       c.user_id = response.user_id /\ c.product_id = response.arg

----------------------------------------------------------------------------
(* C9 *)

\* the latest step answered an add_to_cart of a user for a product they sell
AnsweredOwnProduct ==
  response.op = "add_to_cart" /\ seller_id(response.arg) = response.user_id

\* C9 as stated: an add_to_cart of a user for a product they sell that is
\* in the catalog, unsold or sold, is answered SelfPurchaseForbidden
C9_AlwaysSelfPurchaseForbidden ==
  (AnsweredOwnProduct /\ products[response.arg].exists)
    => response.result = "SelfPurchaseForbidden"

\* C9 as amended: an add_to_cart of a user for a product they sell always
\* fails and adds nothing to the cart: with ProductNotFound or
\* ProductUnavailable when the product was found missing or sold (these
\* checks come first), with SelfPurchaseForbidden otherwise
C9_SellerAlwaysRefused ==
  /\ \A r \in BagToSet(requests) :
       (r.op = "add_to_cart" /\ seller_id(r.arg) = r.user_id) => r.pc = "existing"
  /\ AnsweredOwnProduct
       => LET product == products[response.arg]
          IN /\ response.result \in
                  {"ProductNotFound", "ProductUnavailable", "SelfPurchaseForbidden"}
             /\ response.result = "ProductNotFound" => ~product.exists
             /\ response.result = "ProductUnavailable" => product.is_sold
             /\ (product.exists /\ ~product.is_sold)
                  => response.result = "SelfPurchaseForbidden"
             /\ \A c \in cart_items :
                  ~(c.user_id = response.user_id /\ c.product_id = response.arg)

\* C9 witness: the seller of a product that has been sold asked to add it
\* to their cart and was answered ProductUnavailable
C9_Witness ==
  /\ AnsweredOwnProduct
  /\ products[response.arg].is_sold
  /\ response.result = "ProductUnavailable"

----------------------------------------------------------------------------
(* C10 *)

\* the four conditions of add_to_cart(u, p), in the current state
CanAdd(u, p) ==
  /\ products[p].exists
  /\ ~products[p].is_sold
  /\ seller_id(p) # u
  /\ \A c \in cart_items : ~(c.user_id = u /\ c.product_id = p)

\* the step answers an add_to_cart that was in progress
AddAnswered(r) == r.op = "add_to_cart" /\ Answered(r)

\* C10 as stated, for a product that is in the catalog: an add_to_cart is
\* answered with success if and only if, when it is answered, the product is
\* unsold, is not sold by the user and is not in the user's cart
C10_SucceedsIffCanAdd ==
  [][\A r \in InProgress :
       (AddAnswered(r) /\ products[r.arg].exists)
       => (response'.result = "Created" <=> CanAdd(r.user_id, r.arg))]_vars

\* C10 as amended: add_to_cart answers ProductNotFound or ProductUnavailable
\* exactly when its lookup finds the product missing or sold, then
\* AlreadyInCart or SelfPurchaseForbidden exactly when its cart query finds
\* the entry or the user is the seller, and otherwise inserts: the insert
\* succeeds when the cart still has no such entry, also when the product has
\* been sold or withdrawn meanwhile, and can only fail with a server error.
\* Success adds exactly one cart entry (u, p) and changes nothing else;
\* every other step, a failed insert included, changes nothing
C10_AddToCartOutcome ==
  [][/\ \A u \in Users, p \in ProductIds :
          AddToCartProduct(u, p)
          => /\ UNCHANGED db
             /\ IF ~products[p].exists
                THEN requests' = requests /\ response'.result = "ProductNotFound"
                ELSE IF products[p].is_sold
                THEN requests' = requests /\ response'.result = "ProductUnavailable"
                ELSE requests' # requests /\ response' = NoResponse
     /\ \A r \in InProgress :
          (r.op = "add_to_cart" /\ r.pc = "existing" /\ Stepped(r))
          => /\ UNCHANGED db
             /\ IF \E c \in cart_items : c.user_id = r.user_id /\ c.product_id = r.arg
                THEN Answered(r) /\ response'.result = "AlreadyInCart"
                ELSE IF seller_id(r.arg) = r.user_id
                THEN Answered(r) /\ response'.result = "SelfPurchaseForbidden"
                ELSE ~Answered(r) /\ response' = NoResponse
     /\ \A r \in InProgress :
          (r.op = "add_to_cart" /\ r.pc = "insert" /\ Stepped(r))
          => /\ Answered(r)
             /\ UNCHANGED <<products, orders, order_items>>
             /\ response'.result \in {"Created", "Error"}
             /\ (\A c \in cart_items : ~(c.user_id = r.user_id /\ c.product_id = r.arg))
                  => response'.result = "Created"
             /\ response'.result = "Error" => UNCHANGED db
             /\ response'.result = "Created"
                  => \E c \in cart_items' :
                       /\ c \notin cart_items
                       /\ c.user_id = r.user_id /\ c.product_id = r.arg
                       /\ cart_items' = cart_items \cup {c}]_vars

\* C10 witness: an add_to_cart succeeded for a product that was sold between
\* its lookup and its insert
C10_Witness ==
  /\ response.op = "add_to_cart" /\ response.result = "Created"
  /\ products[response.arg].is_sold
  /\ \E c \in cart_items :
       c.user_id = response.user_id /\ c.product_id = response.arg

----------------------------------------------------------------------------
(* C11 *)

\* C11: remove_from_cart(id) by user u answers NotFound when no cart entry
\* has this id and Forbidden when the entry belongs to another user, and
\* changes nothing in both cases; otherwise it goes on to delete, and its
\* delete removes the entry of this id of user u and no other entry
C11_RemoveOnlyOwnEntry ==
  [][/\ \A u \in Users, id \in 1..MaxCartItemId :
          RemoveFromCartGet(u, id)
          => /\ UNCHANGED db
             /\ IF \A c \in cart_items : c.id # id
                THEN requests' = requests /\ response'.result = "NotFound"
                ELSE IF \E c \in cart_items : c.id = id /\ c.user_id # u
                THEN requests' = requests /\ response'.result = "Forbidden"
                ELSE requests' # requests /\ response' = NoResponse
     /\ \A r \in InProgress :
          (r.op = "remove_from_cart" /\ Stepped(r))
          => /\ Answered(r)
             /\ cart_items' = cart_items \ {c \in cart_items :
                                              c.id = r.arg /\ c.user_id = r.user_id}
             /\ UNCHANGED <<products, next_cart_item_id, orders, order_items>>]_vars

\* C11 witness: a user asked to remove the cart entry of another user, was
\* answered Forbidden, and the entry is still in the cart of its owner
C11_Witness ==
  /\ response.op = "remove_from_cart" /\ response.result = "Forbidden"
  /\ \E c \in cart_items : c.id = response.arg /\ c.user_id # response.user_id

----------------------------------------------------------------------------
(* C12 *)

\* the elements of a sequence
Range(seq) == {seq[i] : i \in DOMAIN seq}

\* the step is a turn of the loop of the get_cart r
GetCartStep(r) == r.op = "get_cart" /\ r.pc = "product" /\ Stepped(r)

\* the lists and the total of get_cart r after the step: those of the answer
\* when the step answers r, those of the request in progress otherwise
AfterStep(r) ==
  IF Answered(r) THEN response'
  ELSE CHOOSE r2 \in BagToSet(requests') :
         requests' = (requests (-) SetToBag({r})) (+) SetToBag({r2})

\* C12: get_cart reads every cart entry of the user and changes nothing; each
\* entry goes to exactly one list, the items when its product is read as
\* existing and unsold, the unavailable ones with reason "missing" or "sold"
\* otherwise; only listed items add their price to the total; the answer is
\* always a success, and its two lists together hold every entry once
C12_GetCartReportsEveryEntry ==
  [][/\ \A u \in Users :
          GetCartItems(u)
          => /\ UNCHANGED db
             /\ IF CartRows(u) = {}
                THEN /\ requests' = requests
                     /\ response'.op = "get_cart" /\ response'.result = "Ok"
                     /\ response'.valid_items = <<>> /\ response'.unavailable = <<>>
                     /\ response'.total = 0
                ELSE \E r \in BagToSet(requests') :
                       /\ requests' = requests (+) SetToBag({r})
                       /\ r.op = "get_cart" /\ r.user_id = u
                       /\ Range(r.cart_items) = CartRows(u)
                       /\ Len(r.cart_items) = Cardinality(CartRows(u))
                       /\ r.valid_items = <<>> /\ r.unavailable = <<>> /\ r.total = 0
     /\ \A r \in InProgress :
          GetCartStep(r)
          => LET item == r.cart_items[Len(r.loaded) + 1]
                 product == products[item.product_id]
                 after == AfterStep(r)
             IN /\ UNCHANGED db
                /\ Answered(r) <=> Len(r.loaded) + 1 = Len(r.cart_items)
                /\ Answered(r) => response'.result = "Ok"
                /\ IF product.exists /\ ~product.is_sold
                   THEN /\ after.valid_items = Append(r.valid_items, item)
                        /\ after.unavailable = r.unavailable
                        /\ after.total = r.total + price(item.product_id)
                   ELSE /\ after.valid_items = r.valid_items
                        /\ after.unavailable =
                             Append(r.unavailable,
                                    [id |-> item.id, product_id |-> item.product_id,
                                     reason |-> IF product.exists THEN "sold"
                                                ELSE "missing"])
                        /\ after.total = r.total
                /\ Answered(r)
                     => /\ Len(after.valid_items) + Len(after.unavailable)
                             = Len(r.cart_items)
                        /\ \A c \in Range(r.cart_items) :
                             (c \in Range(after.valid_items))
                               # (\E e \in Range(after.unavailable) : e.id = c.id)
                        /\ after.total = PriceOfRows(Range(after.valid_items))]_vars

\* C12 witness: get_cart answered a cart of one available product, listed
\* with its price as the total, one sold product and no other entry
C12_Witness ==
  /\ response.op = "get_cart" /\ response.result = "Ok"
  /\ Len(response.valid_items) = 1
  /\ response.total = price(response.valid_items[1].product_id)
  /\ Len(response.unavailable) = 1
  /\ response.unavailable[1].reason = "sold"
  /\ products[response.unavailable[1].product_id].is_sold
  /\ Cardinality(CartRows(response.user_id)) = 2

----------------------------------------------------------------------------
(* C13 *)

\* C13: a product that is sold stays in the catalog and stays sold over
\* every step, whatever request takes it
C13_SoldStaysSold ==
  [][\A p \in ProductIds :
       products[p].is_sold => (products'[p].exists /\ products'[p].is_sold)]_vars

\* C13 witness: the checkout of a user whose cart holds a product that was
\* sold to another user meanwhile failed at its commit, and the product is
\* still sold
C13_Witness ==
  /\ response.op = "checkout" /\ response.result = "CheckoutFailed"
  /\ \E c \in CartRows(response.user_id) :
       SoldToAnother(c.product_id, response.user_id)

----------------------------------------------------------------------------
(* C14 *)

\* r and o are checkouts in progress of different users whose carts, as
\* loaded, share no product
DisjointCheckouts(r, o) ==
  /\ r.op = "checkout" /\ o.op = "checkout"
  /\ r.user_id # o.user_id
  /\ ItemProducts(r.cart_items) \cap ItemProducts(o.cart_items) = {}

\* C14: while checkouts r and o of different users with disjoint products
\* are both in progress, a step of r leaves o as it is, with the products
\* and the cart entries of o's user; r passes validation when it reads its
\* products available, and its commit, unless the write itself fails,
\* succeeds with an order of its own user and one order item per product of
\* its own cart
C14_DisjointCheckoutsBothSucceed ==
  [][\A r \in InProgress : \A o \in InProgress :
       (DisjointCheckouts(r, o) /\ Stepped(r))
       => /\ BagIn(o, requests')
          /\ \A p \in ItemProducts(o.cart_items) : products'[p] = products[p]
          /\ \A c \in CartRows(o.user_id) : c \in cart_items'
          /\ (r.pc = "validate" /\ ~MeetsStale(r))
               => (~Answered(r) /\ response' = NoResponse)
          /\ (r.pc = "commit" /\ response'.result # "CheckoutFailed")
               => LET n == Len(orders')
                      added == (Len(order_items) + 1)..Len(order_items')
                  IN /\ response'.result = "OrderCreated"
                     /\ n = Len(orders) + 1
                     /\ orders'[n].user_id = r.user_id
                     /\ {order_items'[i].product_id : i \in added}
                          = ItemProducts(r.cart_items)
                     /\ \A i \in added : order_items'[i].order_id = n
                     /\ \A p \in ItemProducts(r.cart_items) : products'[p].is_sold]_vars

\* C14 witness: a checkout has just created its order while the checkout of
\* another user, whose cart holds other products, all still available, is
\* about to commit
C14_Witness ==
  /\ response.op = "checkout" /\ response.result = "OrderCreated"
  /\ \E o \in BagToSet(requests) :
       /\ o.op = "checkout" /\ o.pc = "commit"
       /\ o.user_id # response.user_id
       /\ CartOf(o.user_id) = o.cart_items
       /\ \A p \in ItemProducts(o.cart_items) :
            /\ products[p].exists /\ ~products[p].is_sold
            /\ \A i \in OrderItemsOf(p) : order_items[i].order_id # response.order_id

----------------------------------------------------------------------------
(* C15 *)

\* the cart entry that the remove_from_cart r loaded has been deleted by a
\* checkout of its user, which sold the product of the entry to this user
ConsumedByCheckout(r) ==
  /\ \A c \in cart_items : c.id # r.arg
  /\ \E i \in OrderItemsOf(r.cart_items[1].product_id) :
       orders[order_items[i].order_id].user_id = r.user_id

\* C15: a remove_from_cart that has read its cart entry and comes to its
\* delete after a checkout of the same user deleted the entry answers
\* NotFound and changes nothing
C15_LateRemoveReportsNotFound ==
  [][\A r \in InProgress :
       (r.op = "remove_from_cart" /\ Answered(r) /\ ConsumedByCheckout(r))
       => (response'.result = "NotFound" /\ UNCHANGED db)]_vars

----------------------------------------------------------------------------
(* C16 *)

\* the reason that an entry of the report of unavailable products gives
ReasonOf(e) == IF "reason" \in DOMAIN e THEN e.reason ELSE "none"

----------------------------------------------------------------------------
(* C17 *)

\* the queries that the checkout r has yet to run before its commit is done
Remaining(r) ==
  Len(r.cart_items) - Len(r.loaded) + (IF r.pc = "validate" THEN 1 ELSE 0)

\* the outcomes of a checkout that got past its cart query
CheckoutOutcomes == {"OrderCreated", "ItemsUnavailable", "CheckoutFailed"}

\* every step of a checkout in progress brings it nearer to its answer and
\* writes nothing unless it is the answer OrderCreated, which sells every
\* product of the cart at once
CheckoutAdvances ==
  [][/\ \A u \in Users :
          CheckoutItems(u)
          => /\ UNCHANGED db
             /\ \/ requests' = requests /\ response'.result = "EmptyCart"
                \/ requests' # requests /\ response' = NoResponse
     /\ \A r \in InProgress :
          (r.op = "checkout" /\ Stepped(r))
          => IF Answered(r)
             THEN /\ response'.op = "checkout" /\ response'.user_id = r.user_id
                  /\ response'.result \in CheckoutOutcomes
                  /\ response'.result # "OrderCreated" => UNCHANGED db
                  /\ response'.result = "OrderCreated"
                       => \A p \in ItemProducts(r.cart_items) :
                            /\ products'[p].is_sold
                            /\ \E i \in (Len(order_items) + 1)..Len(order_items') :
                                 order_items'[i].product_id = p
             ELSE /\ UNCHANGED db
                  /\ \E r2 \in BagToSet(requests') :
                       /\ requests' = (requests (-) SetToBag({r})) (+) SetToBag({r2})
                       /\ r2.op = "checkout" /\ r2.user_id = r.user_id
                       /\ Remaining(r2) < Remaining(r)]_vars

\* a checkout of user u is in progress
CheckingOut(u) ==
  \E r \in BagToSet(requests) : r.op = "checkout" /\ r.user_id = u

\* C17: a checkout answers EmptyCart at once or is taken in progress; a
\* checkout in progress never goes back (no retry), writes nothing before
\* its answer and never sells a part of its cart; and when a checkout of a
\* user is in progress, a checkout of this user is eventually answered with
\* OrderCreated, ItemsUnavailable or CheckoutFailed
C17_CheckoutTerminates ==
  /\ CheckoutAdvances
  /\ \A u \in Users :
       CheckingOut(u)
         ~> (/\ response.op = "checkout" /\ response.user_id = u
             /\ response.result \in CheckoutOutcomes)

\* C17 witness: a checkout failed at its commit while the checkout of
\* another user is in the middle of its validation
C17_Witness ==
  /\ response.op = "checkout" /\ response.result = "CheckoutFailed"
  /\ \E o \in BagToSet(requests) :
       /\ o.op = "checkout" /\ o.pc = "validate"
       /\ o.user_id # response.user_id
       /\ o.loaded # <<>>

----------------------------------------------------------------------------
(* C18 *)

\* the requests of the cart other than checkout
CartOps == {"add_to_cart", "remove_from_cart", "get_cart"}

\* the step leaves every sold flag, every Order and every OrderItem as it is
SalesUnchanged ==
  /\ \A p \in ProductIds : products'[p].is_sold = products[p].is_sold
  /\ orders' = orders
  /\ order_items' = order_items

\* C18: a step that changes a sold flag, an Order or an OrderItem is the
\* commit of a checkout that answers OrderCreated; every step of an
\* add_to_cart, a remove_from_cart or a get_cart, whatever it answers,
\* leaves them all unchanged
C18_OnlyCheckoutSells ==
  [][/\ ~SalesUnchanged
          => \E r \in InProgress : CommitStep(r) /\ response'.result = "OrderCreated"
     /\ response'.op \in CartOps => SalesUnchanged
     /\ \A r \in InProgress : (r.op \in CartOps /\ Stepped(r)) => SalesUnchanged
     /\ (\E r \in BagToSet(requests') :
           r.op \in CartOps /\ CopiesIn(r, requests') > CopiesIn(r, requests))
          => SalesUnchanged]_vars

\* C18 witness: an add_to_cart succeeded for an unsold product after an
\* order was placed, and the product is still unsold
C18_Witness ==
  /\ response.op = "add_to_cart" /\ response.result = "Created"
  /\ orders # <<>>
  /\ ~products[response.arg].is_sold
  /\ OrderItemsOf(response.arg) = {}

----------------------------------------------------------------------------
(* C19 *)

\* C19: a checkout that answers OrderCreated leaves the cart entries of
\* every other user in place; a cart entry whose product has been sold to
\* another user leaves the cart only by a remove_from_cart of its owner; and
\* no checkout of a user who holds such an entry answers OrderCreated
C19_StaleEntriesStayUntilRemoved ==
  [][/\ \A r \in InProgress :
          (CommitStep(r) /\ response'.result = "OrderCreated")
          => \A c \in cart_items : c.user_id # r.user_id => c \in cart_items'
     /\ \A c \in cart_items :
          (SoldToAnother(c.product_id, c.user_id) /\ c \notin cart_items')
          => \E r \in InProgress :
               /\ r.op = "remove_from_cart" /\ Answered(r)
               /\ r.user_id = c.user_id /\ r.arg = c.id
     /\ \A r \in InProgress :
          (/\ r.op = "checkout" /\ Answered(r)
           /\ \E c \in CartRows(r.user_id) : SoldToAnother(c.product_id, r.user_id))
          => response'.result # "OrderCreated"]_vars

----------------------------------------------------------------------------
(* C20 *)

\* C20: in every reachable state no cart entry is of the seller of its
\* product, and no OrderItem is of an Order whose user sells the product
C20_NoOwnProductInCartOrOrder ==
  /\ \A c \in cart_items : seller_id(c.product_id) # c.user_id
  /\ \A i \in DOMAIN order_items :
       seller_id(order_items[i].product_id) # orders[order_items[i].order_id].user_id

\* C20 witness: the seller of a product that is in the cart of another user
\* asked to add it to their own cart and was refused, and an order item is
\* stored for a product whose seller is one of the users who send requests
C20_Witness ==
  /\ response.op = "add_to_cart" /\ response.result = "SelfPurchaseForbidden"
  /\ \E c \in cart_items :
       c.product_id = response.arg /\ c.user_id # response.user_id
  /\ \E i \in DOMAIN order_items : seller_id(order_items[i].product_id) \in Users

====
